---- MODULE Spec2Model ----
(***************************************************************************)
(* A model of slmgr.py, the MAME software-list import tool.                *)
(*                                                                         *)
(* One run of `slmgr importp SL NAME FILE...` is a sequential process: pc  *)
(* is the position in the code, and every step with an effect outside the  *)
(* process (a PATH lookup, a directory creation, a copy, an external tool  *)
(* run, a write to stdout or stderr, the exit) is one action.  File names  *)
(* are sequences of one-character strings, so that pathlib's name, suffix  *)
(* and stem, str.lower and re.sub are computed character by character.     *)
(***************************************************************************)
EXTENDS Integers, Sequences, FiniteSets, TLC

VARIABLES
    sl,           \* argument SL of importp
    name,         \* argument NAME of importp
    filename,     \* argument FILE... of importp: a tuple of input files
    path,         \* the commands shutil.which finds on PATH
    pc,           \* position in the code
    idx,          \* position of the for loop of importparts in filename
    count,        \* importparts' count
    parts,        \* importparts' parts
    output_name,  \* importcd/importhdd's output_name, importflop's base_name
    crc32,        \* importflop's crc32
    sha1,         \* the sha1 returned by getSha1
    dirs,         \* directories made by os.makedirs
    roms,         \* files written under roms/
    ran,          \* the external commands run so far, in order, each with
                  \* the position n of the file it was run for
    out,          \* what click.echo wrote to standard output
    err,          \* what click.echo wrote to standard error
    exitcode      \* the exit status of the process, -1 while it runs

vars == <<sl, name, filename, path, pc, idx, count, parts, output_name, crc32,
          sha1, dirs, roms, ran, out, err, exitcode>>

-----------------------------------------------------------------------------
(* Bounds of the model *)

\* the most FILE arguments of one call
MaxFiles == 2
\* the longest generated stem of the getOutputName specification
MaxStem == 3

-----------------------------------------------------------------------------
(* Characters and strings *)

UpperCase == <<"A", "C", "D", "G", "H", "I", "M">>
LowerCase == <<"a", "c", "d", "g", "h", "i", "m">>
OtherLower == {"b", "e", "k", "n", "o", "s", "x", "y"}
Digits == {"1"}

\* the characters re's \w matches under re.ASCII: [a-zA-Z0-9_]
WordChars ==
    {UpperCase[i] : i \in 1..Len(UpperCase)} \cup
    {LowerCase[i] : i \in 1..Len(LowerCase)} \cup OtherLower \cup Digits \cup {"_"}

\* str.lower on one character
LowerChar(c) ==
    IF \E i \in 1..Len(UpperCase) : UpperCase[i] = c
    THEN LowerCase[CHOOSE i \in 1..Len(UpperCase) : UpperCase[i] = c]
    ELSE c

\* str.lower
Lower(s) == [i \in 1..Len(s) |-> LowerChar(s[i])]

\* the positions of character c in s
Positions(s, c) == {i \in 1..Len(s) : s[i] = c}

Max(S) == CHOOSE m \in S : \A n \in S : n <= m

\* pathlib.PurePath.name: the final path component
PathName(p) ==
    IF Positions(p, "/") = {} THEN p
    ELSE SubSeq(p, Max(Positions(p, "/")) + 1, Len(p))

\* pathlib.PurePath.suffix: from the last dot of the name on, when that dot
\* is neither the first nor the last character of the name
PathSuffix(p) ==
    LET n == PathName(p)
        dots == Positions(n, ".")
    IN  IF dots # {} /\ 1 < Max(dots) /\ Max(dots) < Len(n)
        THEN SubSeq(n, Max(dots), Len(n))
        ELSE <<>>

\* pathlib.PurePath.stem: the name without its suffix
PathStem(p) ==
    LET n == PathName(p)
    IN  SubSeq(n, 1, Len(n) - Len(PathSuffix(p)))

\* s without its leading characters that \W matches
RECURSIVE SkipNonWord(_)
SkipNonWord(s) ==
    IF s = <<>> \/ Head(s) \in WordChars THEN s ELSE SkipNonWord(Tail(s))

\* re.sub(r"\W+", "_", s, flags=re.ASCII)
RECURSIVE ReSubNonWord(_)
ReSubNonWord(s) ==
    IF s = <<>> THEN <<>>
    ELSE IF Head(s) \in WordChars THEN <<Head(s)>> \o ReSubNonWord(Tail(s))
    ELSE <<"_">> \o ReSubNonWord(SkipNonWord(Tail(s)))

\* str.endswith("_")
EndsWithUnderscore(s) == s # <<>> /\ s[Len(s)] = "_"

getOutputName(f) ==
    LET base_name == Lower(PathStem(f))
        replaced == ReSubNonWord(base_name)
    IN  IF EndsWithUnderscore(replaced)
        THEN SubSeq(replaced, 1, Len(replaced) - 1)
        ELSE replaced

ChdSuffix == <<".", "c", "h", "d">>
IsoSuffix == <<".", "i", "s", "o">>


\* a variant of fileSuffix that compares the suffix as written
fileSuffixCaseSensitive(f) == PathSuffix(f)

\* the suffix importpart and getSha1 compare: pathlib's suffix, lowercased
fileSuffix(f) == Lower(PathSuffix(f))

-----------------------------------------------------------------------------
(* The environment: the files FILE... may name (click.Path(exists=True,     *)
(* dir_okay=False) admits existing regular files only), the list names, the *)
(* entry names and the commands PATH may hold.                              *)

ExistingFiles ==
    { [path |-> <<"M", "y", " ", "G", "a", "m", "e", "!", ".", "i", "m", "g">>,
       size |-> 1474560],
      [path |-> <<"d", "/", "A", "_", "_", ".", "I", "M", "A">>, size |-> 368640],
      [path |-> <<"b", ".", "i", "m", "g">>, size |-> 1228800],
      [path |-> <<"c", "-", "-", "1", ".", "i", "m", "g">>, size |-> 737280],
      [path |-> <<"x", ".", "b", "i", "n">>, size |-> 999999],
      [path |-> <<"D", "i", "s", "k", ".", "C", "H", "D">>, size |-> 737280],
      [path |-> <<"c", "d", " ", "1", ".", "i", "s", "o">>, size |-> 1228800] }

ListNames == {"ibm5150_hdd", "ibm5170_hdd", "pc_xt"}

EntryNames == {"mygame", "abcdefghijklmnop", "abcdefghijklmnopq"}

Commands == {"crc32", "sha1sum", "chdman"}

\* getSize: pathlib.Path(filename).stat().st_size
getSize(f) == (CHOOSE e \in ExistingFiles : e.path = f).size

NoValue == <<>>

-----------------------------------------------------------------------------
(* importp, importparts, importpart: the pure parts *)

\* the limit of importp on len(name)
MaxNameLen == 16


\* a variant of NameTooLong that rejects a name of exactly MaxNameLen characters
NameTooLongOffByOne(n) == Len(n) >= MaxNameLen

NameTooLong(n) == Len(n) > MaxNameLen


\* a variant of InitialCount that starts at 1 whatever the number of files
InitialCountOne(fs) == 1

\* a variant of InitialCount that starts at 0 whatever the number of files
InitialCountZero(fs) == 0

\* importparts: count before the loop
InitialCount(fs) == IF Len(fs) = 1 THEN 0 ELSE 1

\* importpart: the branch taken for a file
Kind(f) ==
    IF fileSuffix(f) = ChdSuffix THEN "hdd"
    ELSE IF fileSuffix(f) = IsoSuffix THEN "cdrom"
    ELSE "flop"

\* importpart: partname
partName(kind, c) == IF c > 0 THEN kind \o ToString(c) ELSE kind

\* importpart: interface of a .chd file
hddInterface(l) ==
    IF l = "ibm5150_hdd" THEN "st_hdd"
    ELSE IF l = "ibm5170_hdd" THEN "ide_hdd"
    ELSE "scsi_hdd"

\* importpart: interface of a raw floppy image
flopInterface(size) ==
    IF size = 368640 \/ size = 1228800 THEN "floppy_5_25"
    ELSE IF size = 737280 \/ size = 1474560 THEN "floppy_3_5"
    ELSE "TODO"


\* a variant of romName that returns the derived output name
romNameDerived(f) == getOutputName(f)

\* importflop: base_name, which importpart writes as the rom's name
romName(f) == PathName(f)

\* importcd, importhdd: output
outputFile(f) == getOutputName(f) \o ChdSuffix

\* importpart: partxml for a file, given what the import functions returned
partXml(l, f, c, oname, s1, crc) ==
    IF Kind(f) = "hdd" THEN
        [name |-> partName("hdd", c), interface |-> hddInterface(l),
         area |-> [tag |-> "diskarea", name |-> "harddriv", disk |-> oname,
                   sha1 |-> s1, writeable |-> "yes"]]
    ELSE IF Kind(f) = "cdrom" THEN
        [name |-> partName("cdrom", c), interface |-> "cdrom",
         area |-> [tag |-> "diskarea", name |-> "cdrom", disk |-> oname,
                   sha1 |-> s1]]
    ELSE
        [name |-> partName("flop", c), interface |-> flopInterface(getSize(f)),
         area |-> [tag |-> "dataarea", name |-> "flop", size |-> getSize(f),
                   rom |-> oname, crc |-> crc, sha1 |-> s1]]


\* a variant of addPart that puts the new part first
addPartFirst(ps, p) == <<p>> \o ps

\* importparts: parts.append
addPart(ps, p) == Append(ps, p)

\* importparts: xml
softwareXml(n, ps) ==
    [software |-> n, description |-> "TODO", year |-> "TODO",
     publisher |-> "TODO", parts |-> ps]

\* requireCommands: missing
missing(commands) == SelectSeq(commands, LAMBDA cmd : cmd \notin path)

\* getRomPath: rom_path
romPath == <<"roms", sl, name>>

-----------------------------------------------------------------------------
(* The run of importp *)

Files == {[path |-> e.path, size |-> e.size] : e \in ExistingFiles}

FileTuples == UNION {[1..n -> Files] : n \in 0..MaxFiles}

Init ==
    /\ sl \in ListNames
    /\ name \in EntryNames
    /\ filename \in FileTuples
    /\ path \in SUBSET Commands
    /\ pc = "importp"
    /\ idx = 1
    /\ count = 0
    /\ parts = <<>>
    /\ output_name = NoValue
    /\ crc32 = NoValue
    /\ sha1 = NoValue
    /\ dirs = {}
    /\ roms = {}
    /\ ran = <<>>
    /\ out = <<>>
    /\ err = <<>>
    /\ exitcode = -1

current == filename[idx].path


\* a variant of Fail that prints the parts built so far before it exits
FailPartial(msg) ==
    /\ err' = Append(err, msg)
    /\ exitcode' = 1
    /\ pc' = "exit"
    /\ out' = IF parts # <<>> THEN Append(out, softwareXml(name, parts)) ELSE out

\* click.echo(..., err=True); sys.exit(1), and an uncaught exception, which
\* prints its traceback to standard error and exits with status 1
Fail(msg) ==
    /\ err' = Append(err, msg)
    /\ exitcode' = 1
    /\ pc' = "exit"
    /\ UNCHANGED out

\* requireCommands(commands), then on to next
Require(commands, next) ==
    IF Len(missing(commands)) > 0
    THEN Fail([error |-> "Required commands not found", what |-> missing(commands)])
    ELSE pc' = next /\ UNCHANGED <<out, err, exitcode>>

\* runCommand(cmd): the command exits 0 and control goes on to next, or it
\* exits non-zero
RunCommand(cmd, next) ==
    /\ ran' = Append(ran, cmd)
    /\ \/ pc' = next /\ UNCHANGED <<out, err, exitcode>>
       \/ Fail([error |-> "command failed", what |-> cmd])

\* importp: the check of len(name); importparts: the count before the loop
CheckName ==
    /\ pc = "importp"
    /\ IF NameTooLong(name)
       THEN /\ Fail([error |-> "must be 16 chars or less", what |-> name])
            /\ UNCHANGED count
       ELSE /\ pc' = "for"
            /\ count' = InitialCount(filename)
            /\ UNCHANGED <<out, err, exitcode>>
    /\ UNCHANGED <<sl, name, filename, path, idx, parts, output_name, crc32,
                   sha1, dirs, roms, ran>>

\* importparts: the loop takes the next file; importpart: the branch on suffix
ImportPart ==
    /\ pc = "for"
    /\ idx <= Len(filename)
    /\ pc' = IF Kind(current) = "hdd" THEN "importhdd"
             ELSE IF Kind(current) = "cdrom" THEN "importcd"
             ELSE "importflop"
    /\ UNCHANGED <<sl, name, filename, path, idx, count, parts, output_name,
                   crc32, sha1, dirs, roms, ran, out, err, exitcode>>

\* importcd, importhdd: requireCommands(["chdman"])
RequireChdman ==
    /\ pc \in {"importhdd", "importcd"}
    /\ Require(<<"chdman">>, "getRomPath")
    /\ UNCHANGED <<sl, name, filename, path, idx, count, parts, output_name,
                   crc32, sha1, dirs, roms, ran>>

\* getRomPath; then output_name (importcd, importhdd) or base_name (importflop)
GetRomPath ==
    /\ pc \in {"getRomPath", "importflop"}
    /\ dirs' = dirs \cup {romPath}
    /\ output_name' = IF Kind(current) = "flop" THEN romName(current)
                      ELSE getOutputName(current)
    /\ pc' = IF Kind(current) = "flop" THEN "copy2" ELSE "chdman"
    /\ UNCHANGED <<sl, name, filename, path, idx, count, parts, crc32, sha1,
                   roms, ran, out, err, exitcode>>

\* importcd: chdman createcd; importhdd: chdman copy
RunChdman ==
    /\ pc = "chdman"
    /\ RunCommand([n |-> idx, cmd |-> "chdman",
                   op |-> IF Kind(current) = "cdrom" THEN "createcd" ELSE "copy",
                   input |-> current,
                   output |-> <<romPath, outputFile(current)>>],
                  "getSha1")
    /\ roms' = IF pc' = "getSha1" THEN roms \cup {<<romPath, outputFile(current)>>}
               ELSE roms
    /\ UNCHANGED <<sl, name, filename, path, idx, count, parts, output_name,
                   crc32, sha1, dirs>>

\* importflop: shutil.copy2(filename, rom_path)
Copy2 ==
    /\ pc = "copy2"
    /\ roms' = roms \cup {<<romPath, PathName(current)>>}
    /\ pc' = "getCrc32"
    /\ UNCHANGED <<sl, name, filename, path, idx, count, parts, output_name,
                   crc32, sha1, dirs, ran, out, err, exitcode>>

\* getCrc32: requireCommands(["crc32"])
RequireCrc32 ==
    /\ pc = "getCrc32"
    /\ Require(<<"crc32">>, "crc32")
    /\ UNCHANGED <<sl, name, filename, path, idx, count, parts, output_name,
                   crc32, sha1, dirs, roms, ran>>

\* getCrc32: runCommand(["crc32", filename])
RunCrc32 ==
    /\ pc = "crc32"
    /\ RunCommand([n |-> idx, cmd |-> "crc32", input |-> current], "getSha1")
    /\ crc32' = IF pc' = "getSha1" THEN [crc32of |-> current] ELSE crc32
    /\ UNCHANGED <<sl, name, filename, path, idx, count, parts, output_name,
                   sha1, dirs, roms>>

\* the file getSha1 is called on: the converted image, or the input file
sha1Target ==
    IF Kind(current) = "flop" THEN current ELSE outputFile(current)

\* getSha1: requireCommands(["chdman", "sha1sum"]), then the branch on suffix
RequireSha1 ==
    /\ pc = "getSha1"
    /\ Require(<<"chdman", "sha1sum">>,
               IF fileSuffix(sha1Target) = ChdSuffix THEN "chdman_info"
               ELSE "sha1sum")
    /\ UNCHANGED <<sl, name, filename, path, idx, count, parts, output_name,
                   crc32, sha1, dirs, roms, ran>>

\* getSha1: chdman info -i filename, and the scan of its output for the SHA1
\* line.  The scan may end without one (sha1 is then unbound at the return)
\* or meet a line with two colons (the unpacking of split(":") then fails):
\* either is an uncaught exception.
RunChdmanInfo ==
    /\ pc = "chdman_info"
    /\ LET cmd == [n |-> idx, cmd |-> "chdman", op |-> "info",
                   input |-> <<romPath, sha1Target>>]
       IN  /\ ran' = Append(ran, cmd)
           /\ \/ /\ pc' = "partxml"
                 /\ sha1' = [sha1of |-> <<romPath, sha1Target>>]
                 /\ UNCHANGED <<out, err, exitcode>>
              \/ /\ Fail([error |-> "command failed", what |-> cmd])
                 /\ UNCHANGED sha1
              \/ /\ Fail([error |-> "uncaught exception", what |-> cmd])
                 /\ UNCHANGED sha1
    /\ UNCHANGED <<sl, name, filename, path, idx, count, parts, output_name,
                   crc32, dirs, roms>>

\* getSha1: runCommand(["sha1sum", filename])
RunSha1sum ==
    /\ pc = "sha1sum"
    /\ RunCommand([n |-> idx, cmd |-> "sha1sum", input |-> sha1Target], "partxml")
    /\ sha1' = IF pc' = "partxml" THEN [sha1of |-> sha1Target] ELSE sha1
    /\ UNCHANGED <<sl, name, filename, path, idx, count, parts, output_name,
                   crc32, dirs, roms>>

\* importpart: partxml is built and returned; importparts: parts.append and
\* count += 1
FinishPart ==
    /\ pc = "partxml"
    /\ parts' = addPart(parts, partXml(sl, current, count, output_name, sha1, crc32))
    /\ count' = count + 1
    /\ idx' = idx + 1
    /\ output_name' = NoValue
    /\ crc32' = NoValue
    /\ sha1' = NoValue
    /\ pc' = "for"
    /\ UNCHANGED <<sl, name, filename, path, dirs, roms, ran, out, err, exitcode>>

\* importparts: the loop is over and xml is built; importp: click.echo(xml)
Emit ==
    /\ pc = "for"
    /\ idx > Len(filename)
    /\ out' = Append(out, softwareXml(name, parts))
    /\ exitcode' = 0
    /\ pc' = "exit"
    /\ UNCHANGED <<sl, name, filename, path, idx, count, parts, output_name,
                   crc32, sha1, dirs, roms, ran, err>>

Next ==
    \/ CheckName
    \/ ImportPart
    \/ RequireChdman
    \/ GetRomPath
    \/ RunChdman
    \/ Copy2
    \/ RequireCrc32
    \/ RunCrc32
    \/ RequireSha1
    \/ RunChdmanInfo
    \/ RunSha1sum
    \/ FinishPart
    \/ Emit

Spec == Init /\ [][Next]_vars

-----------------------------------------------------------------------------
(* getOutputName on its own: the input is any file name made of a stem over *)
(* StemChars of at most MaxStem characters and one of StemSuffixes.         *)

StemChars == {"a", "M", "1", "_", "-", " "}

StemSuffixes == {<<>>, <<".", "i", "m", "g">>}

GeneratedNames ==
    {st \o sf : st \in UNION {[1..n -> StemChars] : n \in 1..MaxStem},
                sf \in StemSuffixes}

NameInit ==
    /\ sl = "pc_xt"
    /\ name = "mygame"
    /\ filename \in {<<[path |-> n, size |-> 0]>> : n \in GeneratedNames}
    /\ path = Commands
    /\ pc = "getOutputName"
    /\ idx = 1
    /\ count = 0
    /\ parts = <<>>
    /\ output_name = NoValue
    /\ crc32 = NoValue
    /\ sha1 = NoValue
    /\ dirs = {}
    /\ roms = {}
    /\ ran = <<>>
    /\ out = <<>>
    /\ err = <<>>
    /\ exitcode = -1

\* output_name = getOutputName(filename)
ApplyGetOutputName ==
    /\ pc = "getOutputName"
    /\ output_name' = getOutputName(current)
    /\ pc' = "named"
    /\ UNCHANGED <<sl, name, filename, path, idx, count, parts, crc32, sha1,
                   dirs, roms, ran, out, err, exitcode>>

NameNext == ApplyGetOutputName

NameSpec == NameInit /\ [][NameNext]_vars

-----------------------------------------------------------------------------
(* The claims *)

N == Len(filename)

KindNames == {"flop", "hdd", "cdrom"}

\* the process has ended with this status
Exited(status) == pc = "exit" /\ exitcode = status

\* the last message on standard error reports missing commands
MissingReported ==
    err # <<>> /\ err[Len(err)].error = "Required commands not found"

\* some external tool exited non-zero or an exception went uncaught
ToolFailed ==
    \E i \in 1..Len(err) : err[i].error \in {"command failed", "uncaught exception"}

\* the name attribute of the <disk> or <rom> element of a part
mediaName(p) == IF p.area.tag = "dataarea" THEN p.area.rom ELSE p.area.disk

\* every part built so far and every part printed, with the position of its file
PartsSeen ==
    {<<i, parts[i]>> : i \in 1..Len(parts)} \cup
    UNION {{<<i, out[k].parts[i]>> : i \in 1..Len(out[k].parts)} : k \in 1..Len(out)}

\* C1: there is no partial success.  Whenever the processing of a file has
\* failed (a required command is missing, a tool exited non-zero, an
\* exception went uncaught) the exit status is 1 and nothing was written to
\* standard output, whatever files were processed before; XML is on
\* standard output only once every file has been processed, with status 0.
C1_NoPartialSuccess ==
    /\ err # <<>> => exitcode = 1 /\ out = <<>>
    /\ (pc = "exit" /\ Len(parts) < N) => exitcode = 1 /\ out = <<>>
    /\ out # <<>> => Len(parts) = N /\ idx = N + 1 /\ exitcode = 0 /\ err = <<>>

\* a two-file import whose first file was processed and whose second failed
C1_Witness ==
    /\ Exited(1) /\ N = 2 /\ Len(parts) = 1 /\ ToolFailed /\ out = <<>>

\* C2: a missing required command is detected before any work starts: when
\* the process exits on a missing command, no directory was created, no file
\* was written under roms/ and no external tool was run.
C2_MissingDetectedUpFront ==
    MissingReported => dirs = {} /\ roms = {} /\ ran = <<>>

\* C3 as stated: in an import of two or more files the first part has no
\* numeric suffix and every later part has one.
C3_FirstFileUnnumbered ==
    (Exited(0) /\ N >= 2) =>
        /\ out[1].parts[1].name \in KindNames
        /\ \A i \in 2..N : out[1].parts[i].name \notin KindNames

\* C3 as amended: in an import of two or more files every part, the first
\* included, carries a numeric suffix: the part of the i-th file is named
\* after its kind followed by i, counted across the whole call.
C3_NumberedFromFirst ==
    N >= 2 =>
        \A ip \in PartsSeen :
            ip[2].name = Kind(filename[ip[1]].path) \o ToString(ip[1])

\* a finished two-file import of a floppy image and a hard-disk image
C3_Witness ==
    /\ Exited(0) /\ N = 2
    /\ out[1].parts[1].name = "flop1"
    /\ out[1].parts[2].name = "hdd2"

\* C4: in an import of exactly one file the part name is the kind name alone;
\* a part name other than a kind name occurs only with more than one file.
C4_SingleFileNoSuffix ==
    /\ N = 1 => \A ip \in PartsSeen :
                    /\ ip[2].name \in KindNames
                    /\ ip[2].name = Kind(filename[1].path)
    /\ \A ip \in PartsSeen : ip[2].name \notin KindNames => N > 1

\* a finished one-file import
C4_Witness ==
    /\ Exited(0) /\ N = 1 /\ Len(out[1].parts) = 1
    /\ out[1].parts[1].name = "cdrom"

\* C5: a name of more than 16 characters is rejected with status 1 before
\* any file is processed (no directory, no file written, no tool run, no
\* XML); a name of at most 16 characters is not rejected for its length, and
\* its import ends with status 0 unless a command is missing or a tool fails.
C5_NameLength ==
    /\ Len(name) > 16 =>
        /\ pc \in {"importp", "exit"}
        /\ pc = "exit" => exitcode = 1
        /\ dirs = {} /\ roms = {} /\ ran = <<>> /\ out = <<>> /\ parts = <<>>
    /\ Len(name) <= 16 =>
        /\ \A i \in 1..Len(err) : err[i].error # "must be 16 chars or less"
        /\ (pc = "exit" /\ err = <<>>) => exitcode = 0 /\ Len(out) = 1

\* an import under a name of exactly 16 characters that went through
C5_Witness ==
    /\ Len(name) = 16 /\ Exited(0) /\ N >= 1 /\ Len(out[1].parts) = N

\* a name of 17 characters was rejected
C5_Rejected ==
    /\ Len(name) = 17 /\ Exited(1) /\ N >= 1
    /\ err = <<[error |-> "must be 16 chars or less", what |-> name]>>

\* the lowercased stem in which every maximal run of characters other than
\* letters and digits is one underscore, a trailing underscore trimmed
RECURSIVE SkipNonAlnum(_)
SkipNonAlnum(s) ==
    IF s = <<>> \/ Head(s) \in WordChars \ {"_"} THEN s ELSE SkipNonAlnum(Tail(s))

RECURSIVE CollapseNonAlnum(_)
CollapseNonAlnum(s) ==
    IF s = <<>> THEN <<>>
    ELSE IF Head(s) \in WordChars \ {"_"} THEN <<Head(s)>> \o CollapseNonAlnum(Tail(s))
    ELSE <<"_">> \o CollapseNonAlnum(SkipNonAlnum(Tail(s)))

ClaimedOutputName(f) ==
    LET c == CollapseNonAlnum(Lower(PathStem(f)))
    IN  IF EndsWithUnderscore(c) THEN SubSeq(c, 1, Len(c) - 1) ELSE c

\* C6: the derived output name is the lowercased base name with every
\* maximal run of non-alphanumeric characters, underscores included,
\* replaced by one underscore, and it never ends in an underscore.
C6_OutputNameRule ==
    pc = "named" =>
        /\ output_name = ClaimedOutputName(current)
        /\ ~EndsWithUnderscore(output_name)

\* C7 as stated: the name attribute of every <disk> and <rom> element is the
\* name derived from the input file by getOutputName.
C7_MediaNameDerived ==
    \A ip \in PartsSeen : mediaName(ip[2]) = getOutputName(filename[ip[1]].path)

\* C7 as amended: the <disk> name of a .chd or .iso file is the derived
\* name; the <rom> name of a raw floppy image is the input file's base name
\* as it is, case, punctuation and extension included.
C7_MediaNameByKind ==
    \A ip \in PartsSeen :
        LET f == filename[ip[1]].path
        IN  IF Lower(PathSuffix(f)) \in {ChdSuffix, IsoSuffix}
            THEN /\ ip[2].area.tag = "diskarea"
                 /\ ip[2].area.disk = getOutputName(f)
            ELSE /\ ip[2].area.tag = "dataarea"
                 /\ ip[2].area.rom = PathName(f)

\* a finished import of a floppy image in a directory and of a hard-disk image
C7_Witness ==
    /\ Exited(0) /\ N = 2
    /\ out[1].parts[1].area.tag = "dataarea"
    /\ out[1].parts[1].area.rom = <<"A", "_", "_", ".", "I", "M", "A">>
    /\ out[1].parts[2].area.tag = "diskarea"
    /\ out[1].parts[2].area.disk = <<"d", "i", "s", "k">>

\* C8: an import of raw floppy images only needs crc32 and sha1sum: with
\* both on PATH (chdman or not), an accepted name and no tool failure, it
\* ends with status 0 and the XML printed.
C8_FloppyOnlyNeedsNoChdman ==
    ( /\ pc = "exit"
      /\ N >= 1
      /\ \A i \in 1..N : Kind(filename[i].path) = "flop"
      /\ {"crc32", "sha1sum"} \subseteq path
      /\ Len(name) <= 16
      /\ ~ToolFailed )
    => exitcode = 0 /\ Len(out) = 1

\* the interface the claim gives a file of list l
ClaimedInterface(l, f) ==
    LET sfx == Lower(PathSuffix(f.path))
    IN  IF sfx = <<".", "c", "h", "d">> THEN
            IF l = "ibm5150_hdd" THEN "st_hdd"
            ELSE IF l = "ibm5170_hdd" THEN "ide_hdd"
            ELSE "scsi_hdd"
        ELSE IF sfx = <<".", "i", "s", "o">> THEN "cdrom"
        ELSE IF f.size \in {368640, 1228800} THEN "floppy_5_25"
        ELSE IF f.size \in {737280, 1474560} THEN "floppy_3_5"
        ELSE "TODO"

\* C9: the interface of every part is decided by the kind of its file (the
\* extension compared without regard to case), the list name and the file
\* size alone, by the table of the claim, wherever the file stands in the
\* call and whatever the other files are.
C9_InterfaceTable ==
    \A ip \in PartsSeen : ip[2].interface = ClaimedInterface(sl, filename[ip[1]])

\* a finished import, into ibm5150_hdd, of an upper-case .CHD and a 1228800-byte floppy
C9_Witness ==
    /\ Exited(0) /\ N = 2 /\ sl = "ibm5150_hdd"
    /\ PathSuffix(filename[1].path) = <<".", "C", "H", "D">>
    /\ out[1].parts[1].interface = "st_hdd"
    /\ filename[2].size = 1228800
    /\ out[1].parts[2].interface = "floppy_5_25"

\* part p carries the checksums of file f
PartIsFor(p, f) ==
    IF Kind(f.path) = "flop"
    THEN /\ p.area.tag = "dataarea"
         /\ p.area.size = f.size
         /\ p.area.crc = [crc32of |-> f.path]
         /\ p.area.sha1 = [sha1of |-> f.path]
    ELSE /\ p.area.tag = "diskarea"
         /\ p.area.name = (IF Kind(f.path) = "hdd" THEN "harddriv" ELSE "cdrom")
         /\ p.area.sha1 = [sha1of |-> <<romPath, getOutputName(f.path) \o ChdSuffix>>]

\* C10: on success standard output holds one <software> element, named
\* after the entry, whose parts are the results for the files in input
\* order, one each; and files are processed one at a time in input order:
\* the parts built so far are those of the files before the current one, and
\* no tool was run for a file before the one before it was finished.
C10_PartsInInputOrder ==
    /\ exitcode = 0 =>
        /\ Len(out) = 1
        /\ out[1].software = name
        /\ Len(out[1].parts) = N
        /\ \A i \in 1..N : PartIsFor(out[1].parts[i], filename[i])
    /\ \A i \in 1..Len(parts) : PartIsFor(parts[i], filename[i])
    /\ Len(parts) = idx - 1
    /\ \A j \in 1..Len(ran) : ran[j].n <= Len(parts) + 1
    /\ \A j, k \in 1..Len(ran) : j < k => ran[j].n <= ran[k].n

\* a finished import of two different files
C10_Witness ==
    /\ Exited(0) /\ N = 2 /\ name = "mygame"
    /\ filename[1] # filename[2]
    /\ Len(out[1].parts) = 2
    /\ ran[Len(ran)].n = 2

====
